---------------------------- MODULE Spec2Model ----------------------------
(***************************************************************************)
(* EZDB client libraries.  Three programs are modelled, one per behaviour: *)
(*   "c_main"     src/client_libs/C/ezdb.c : main -> make_connection ->    *)
(*                diffie_hellman                                           *)
(*   "c_connect"  src/client_libs/ezdb.c   : connect_to_db_server          *)
(*   "rs_query"   src/client_libs/ezdb.c   : the commented design sketch,  *)
(*                query_table -> Connection::connect                       *)
(* The peer (the server) is the environment: what it delivers is chosen    *)
(* when the program reads.                                                 *)
(***************************************************************************)
EXTENDS Integers, Sequences, FiniteSets, TLC

\* ------------------------------------------------------------------ sizes
KeyLen == 32
MaxCred == 512
AuthBufLen == 1024
PasswordOffset == 512
NonceLen == 12
TagLen == 16
ReadTimeoutSecs == 20
SockFd == 3

\* ----------------------------------------------------------------- bounds
\* private keys are drawn from 1..MaxPriv
MaxPriv == 2
\* credential contents are drawn from seeds 1..MaxSeed
MaxSeed == 2

\* ----------------------------------------------------------------- crypto
RECURSIVE ModExp(_, _, _)
ModExp(b, e, m) == IF e = 0 THEN 1 % m ELSE (b * ModExp(b, e - 1, m)) % m

\* the public key of a private key (X25519 base-point multiplication,
\* here exponentiation of the generator 5 in the group of units mod 23)
PublicKeyFrom(priv) == ModExp(5, priv, 23)

\* the raw shared secret of a private key and a peer's public key
DiffieHellman(priv, peerPub) == ModExp(peerPub, priv, 23)

\* blake3_hash: a fixed mixing function of the secret, never 0
Blake3Hash(s) == 1 + ((s * s * 7 + s * 3 + 11) % 97)

\* -------------------------------------------------------------- credentials
\* A credential string is its length and a seed that fixes its bytes; every
\* byte of a string is non-zero.
\* The short strings have one content each, the long ones one per seed.
Creds == [len : {0, 1}, seed : {1}] \cup [len : {MaxCred, MaxCred + 1}, seed : 1..MaxSeed]
Admin == [len |-> 5, seed |-> 1]
CredByte(c, i) == 1 + ((c.seed * 31 + i) % 255)

\* the length check with the limit itself refused
TooLong_OffByOne(u, p) == u.len >= MaxCred \/ p.len >= MaxCred

\* strlen(username) > 512 || strlen(password) > 512
TooLong(u, p) == u.len > MaxCred \/ p.len > MaxCred

\* [0u8; 1024]
ZeroBuffer == [i \in 0..(AuthBufLen - 1) |-> 0]

\* buf[start..start+c.len].copy_from_slice(c): the slice must lie in buf
SliceInRange(buf, start, c) == start + c.len <= AuthBufLen
CopyFromSlice(buf, start, c) ==
    [i \in DOMAIN buf |->
        IF start <= i /\ i < start + c.len THEN CredByte(c, i - start) ELSE buf[i]]

\* the plaintext with the password packed right behind the username
BuildAuthBuffer_Packed(u, p) ==
    CopyFromSlice(CopyFromSlice(ZeroBuffer, 0, u), u.len, p)

\* the 1024-byte credential plaintext
BuildAuthBuffer(u, p) ==
    CopyFromSlice(CopyFromSlice(ZeroBuffer, 0, u), PasswordOffset, p)

\* --------------------------------------------------------------- auth frame
\* encrypt_aes256(plain, key): the encrypted data (ciphertext of the same
\* length, then the tag) and the fresh nonce, as segments of a byte string
EncryptAes256(plainLen) ==
    [encrypted_data |-> << [part |-> "ciphertext", len |-> plainLen],
                           [part |-> "tag", len |-> TagLen] >>,
     data_nonce |-> << [part |-> "nonce", len |-> NonceLen] >>]

\* the block with the nonce put in front
EncryptedDataBlock_NonceFirst(enc) == enc.data_nonce \o enc.encrypted_data

\* encrypted_data_block: extend_from_slice(encrypted_data), then (data_nonce)
EncryptedDataBlock(enc) == enc.encrypted_data \o enc.data_nonce

RECURSIVE SegLen(_)
SegLen(segs) == IF segs = << >> THEN 0 ELSE Head(segs).len + SegLen(Tail(segs))

\* ------------------------------------------------------------ control lines
ControlLines == {"OK", "Username is incorrect", "Password is incorrect",
                 "ok", "OK ", "Table does not exist"}

\* the match with trailing blanks of the control line ignored
Classify_Trimmed(r) ==
    CASE r \in {"OK", "OK "} -> "success"
      [] r = "Username is incorrect" -> "WrongUser"
      [] r = "Password is incorrect" -> "WrongPassword"
      [] OTHER -> "panic"

\* match response.as_str() { ... }
Classify(r) ==
    CASE r = "OK" -> "success"
      [] r = "Username is incorrect" -> "WrongUser"
      [] r = "Password is incorrect" -> "WrongPassword"
      [] OTHER -> "panic"

\* ------------------------------------------------------------------ payload
\* "", "hi", "e-acute", the euro sign; then bytes that are not UTF-8
Payloads == { << >>, <<104, 105>>, <<195, 169>>, <<226, 130, 172>>,
              <<255, 1>>, <<195>>, <<224, 128, 128>> }

InRange(b, lo, hi) == lo <= b /\ b <= hi
IsCont(b) == InRange(b, 128, 191)

\* String::from_utf8: whether the bytes are well-formed UTF-8
RECURSIVE IsValidUtf8(_)
IsValidUtf8(bs) ==
    IF bs = << >> THEN TRUE
    ELSE LET b == bs[1]
             n == Len(bs)
         IN  IF b <= 127 THEN IsValidUtf8(Tail(bs))
             ELSE IF InRange(b, 194, 223)
                  THEN n >= 2 /\ IsCont(bs[2]) /\ IsValidUtf8(SubSeq(bs, 3, n))
             ELSE IF InRange(b, 224, 239)
                  THEN /\ n >= 3
                       /\ IsCont(bs[2]) /\ IsCont(bs[3])
                       /\ (b = 224 => bs[2] >= 160)
                       /\ (b = 237 => bs[2] <= 159)
                       /\ IsValidUtf8(SubSeq(bs, 4, n))
             ELSE IF InRange(b, 240, 244)
                  THEN /\ n >= 4
                       /\ IsCont(bs[2]) /\ IsCont(bs[3]) /\ IsCont(bs[4])
                       /\ (b = 240 => bs[2] >= 144)
                       /\ (b = 244 => bs[2] <= 143)
                       /\ IsValidUtf8(SubSeq(bs, 5, n))
             ELSE FALSE

\* bytes_to_str(&data)?: the outcomes of the conversion; it can only fail on
\* bytes that are not well-formed UTF-8
BytesToStrOutcomes(bs) == IF IsValidUtf8(bs) THEN {"Ok"} ELSE {"Ok", "Err"}

\* -------------------------------------------------------------------- state
VARIABLES
    prog,               \* which program runs
    pc,                 \* its position
    username, password, \* the caller's credentials
    peerPriv,           \* the server's ephemeral private key
    stream,             \* the descriptor the program holds and its socket state
    opened,             \* whether a socket was ever created
    rx,                 \* bytes read into key_buffer / server_public_key
    rxFrom,             \* where those bytes came from
    lastRead,           \* return value of the last read(2) call (-2: none yet)
    ctlRead,            \* control lines read
    bulkRead,           \* bulk payloads read
    writes,             \* what the client wrote to the stream, in order
    private_key,        \* the client's private key (0: none)
    peer_public_key,    \* the public key handed to the derivation (0: none)
    shared_secret,      \* raw shared secret (0: none)
    aes_key,            \* symmetric key (0: none)
    derives,            \* number of secret derivations performed
    auth_buffer,        \* credential plaintext (<< >>: not built)
    timeout,            \* read deadline in seconds (0: unset)
    response,           \* control line returned by instruction_send_and_confirm
    data,               \* the received bulk payload
    result,             \* what the program returned to its caller
    entry,              \* the handshake function the concurrent sessions call
    sessions,           \* per concurrent session: position and return value
    registry,           \* the crypto library's process-global tables
    process,            \* the process the concurrent sessions run in
    order,              \* BplusTree: the order its nodes are created with
    heap,               \* BplusTree: the nodes allocated so far, by address
    root,               \* BplusTree::root (an address)
    inserted,           \* the (value, key) pairs insert was called with
    calls,              \* the number of insert calls made
    fault               \* whether a null pointer was dereferenced

\* the state of the concurrent sessions
concVars == << entry, sessions, registry, process >>

\* the state of one sequential program run
seqVars == << prog, pc, username, password, peerPriv, stream, opened, rx, rxFrom,
              lastRead, ctlRead, bulkRead, writes, private_key, peer_public_key,
              shared_secret, aes_key, derives, auth_buffer, timeout, response,
              data, result >>

\* the state of the B+ tree program
treeVars == << order, heap, root, inserted, calls, fault >>

vars == << seqVars, concVars, treeVars >>

NoResponse == "<none>"
NoCred == [len |-> 0, seed |-> 0]
Ret(k, t, x, u, b, c) ==
    [kind |-> k, tag |-> t, text |-> x, user |-> u, bytes |-> b, code |-> c]
NoResult == Ret("none", "", "", NoCred, << >>, 0)
\* Err(EzError::...)
Err(t) == Ret("Err", t, "", NoCred, << >>, 0)
\* a C function's integer result
Rc(c) == Ret("rc", "", "", NoCred, << >>, c)

NoStream == [fd |-> -1, state |-> "none"]

Write(what, n, segs) ==
    [what |-> what, len |-> n, layout |-> segs, after |-> rx, key |-> aes_key]

Programs == {"c_main", "c_connect", "rs_query"}

\* nothing has run yet
Fresh ==
    /\ pc = "start"
    /\ stream = NoStream
    /\ opened = FALSE
    /\ rx = 0
    /\ rxFrom = "none"
    /\ lastRead = -2
    /\ ctlRead = 0
    /\ bulkRead = 0
    /\ writes = << >>
    /\ private_key = 0
    /\ peer_public_key = 0
    /\ shared_secret = 0
    /\ aes_key = 0
    /\ derives = 0
    /\ auth_buffer = << >>
    /\ timeout = 0
    /\ response = NoResponse
    /\ data = << >>
    /\ result = NoResult

\* a sequential run has no concurrent sessions
NoSessions ==
    /\ entry = "none"
    /\ sessions = << >>
    /\ registry = "unloaded"
    /\ process = "running"

\* a handshake run has no tree
NoTree ==
    /\ order = 0
    /\ heap = << >>
    /\ root = 0
    /\ inserted = {}
    /\ calls = 0
    /\ fault = FALSE

Init ==
    /\ prog \in Programs
    /\ username \in (IF prog = "c_main" THEN {Admin} ELSE Creds)
    /\ password \in (IF prog = "c_main" THEN {Admin} ELSE Creds)
    /\ peerPriv \in 1..MaxPriv
    /\ Fresh
    /\ NoSessions
    /\ NoTree

\* what the inputs and the peer are: never changed by the program
Env == << prog, username, password, peerPriv, concVars, treeVars >>

\* return value v to the caller
Return(v) == pc' = "done" /\ result' = v

\* fragment sizes a read of up to `want` bytes may deliver
Fragments(want) == {1, want}

\* ===================================================== the design sketch
\* Connection::connect, the length check
RsLenCheck ==
    /\ prog = "rs_query" /\ pc = "start"
    /\ IF TooLong(username, password)
       THEN Return(Err("Authentication::TooLong"))
       ELSE pc' = "rs_keygen" /\ UNCHANGED result
    /\ UNCHANGED << Env, stream, opened, rx, rxFrom, lastRead, ctlRead, bulkRead,
                    writes, private_key, peer_public_key, shared_secret, aes_key,
                    derives, auth_buffer, timeout, response, data >>

\* EphemeralSecret::random(), PublicKey::from(&client_private_key)
RsKeygen ==
    /\ prog = "rs_query" /\ pc = "rs_keygen"
    /\ \E k \in 1..MaxPriv : private_key' = k
    /\ pc' = "rs_tcp_connect"
    /\ UNCHANGED << Env, stream, opened, rx, rxFrom, lastRead, ctlRead, bulkRead,
                    writes, peer_public_key, shared_secret, aes_key, derives,
                    auth_buffer, timeout, response, data, result >>

\* TcpStream::connect(address)?
RsTcpConnect ==
    /\ prog = "rs_query" /\ pc = "rs_tcp_connect"
    /\ \/ /\ stream' = [fd |-> SockFd, state |-> "connected"]
          /\ opened' = TRUE
          /\ pc' = "rs_read_key"
          /\ UNCHANGED result
       \/ /\ Return(Err("Io"))
          /\ UNCHANGED << stream, opened >>
    /\ UNCHANGED << Env, rx, rxFrom, lastRead, ctlRead, bulkRead, writes,
                    private_key, peer_public_key, shared_secret, aes_key, derives,
                    auth_buffer, timeout, response, data >>

\* stream.read_exact(&mut key_buffer)?: one read of its loop; then
\* PublicKey::from(key_buffer)
RsReadExact ==
    /\ prog = "rs_query" /\ pc = "rs_read_key"
    /\ \/ \E k \in Fragments(KeyLen - rx) :
            /\ rx' = rx + k
            /\ rxFrom' = "peer"
            /\ lastRead' = k
            /\ IF rx' = KeyLen
               THEN /\ peer_public_key' = PublicKeyFrom(peerPriv)
                    /\ pc' = "rs_send_key"
               ELSE UNCHANGED << peer_public_key, pc >>
            /\ UNCHANGED result
       \/ /\ lastRead' = 0
          /\ Return(Err("Io::UnexpectedEof"))
          /\ UNCHANGED << rx, rxFrom, peer_public_key >>
       \/ /\ lastRead' = -1
          /\ Return(Err("Io"))
          /\ UNCHANGED << rx, rxFrom, peer_public_key >>
    /\ UNCHANGED << Env, stream, opened, ctlRead, bulkRead, writes, private_key,
                    shared_secret, aes_key, derives, auth_buffer, timeout,
                    response, data >>

\* stream.write_all(client_public_key.as_bytes())?
RsSendKey ==
    /\ prog = "rs_query" /\ pc = "rs_send_key"
    /\ \/ /\ writes' = Append(writes, Write("public_key", KeyLen,
                          << [part |-> "public_key", len |-> KeyLen] >>))
          /\ pc' = "rs_derive"
          /\ UNCHANGED result
       \/ /\ Return(Err("Io"))
          /\ UNCHANGED writes
    /\ UNCHANGED << Env, stream, opened, rx, rxFrom, lastRead, ctlRead, bulkRead,
                    private_key, peer_public_key, shared_secret, aes_key, derives,
                    auth_buffer, timeout, response, data >>

\* client_private_key.diffie_hellman(&server_public_key); blake3_hash(..)
RsDerive ==
    /\ prog = "rs_query" /\ pc = "rs_derive"
    /\ shared_secret' = DiffieHellman(private_key, peer_public_key)
    /\ aes_key' = Blake3Hash(shared_secret')
    /\ derives' = derives + 1
    /\ pc' = "rs_auth_buffer"
    /\ UNCHANGED << Env, stream, opened, rx, rxFrom, lastRead, ctlRead, bulkRead,
                    writes, private_key, peer_public_key, auth_buffer, timeout,
                    response, data, result >>

\* the two copy_from_slice calls into auth_buffer
RsAuthBuffer ==
    /\ prog = "rs_query" /\ pc = "rs_auth_buffer"
    /\ IF /\ SliceInRange(ZeroBuffer, 0, username)
          /\ SliceInRange(ZeroBuffer, PasswordOffset, password)
       THEN /\ auth_buffer' = BuildAuthBuffer(username, password)
            /\ pc' = "rs_send_auth"
            /\ UNCHANGED result
       ELSE /\ pc' = "panicked"
            /\ result' = Ret("panic", "slice", "", NoCred, << >>, 0)
            /\ UNCHANGED auth_buffer
    /\ UNCHANGED << Env, stream, opened, rx, rxFrom, lastRead, ctlRead, bulkRead,
                    writes, private_key, peer_public_key, shared_secret, aes_key,
                    derives, timeout, response, data >>

\* the frame Connection::connect writes
AuthFrame == EncryptedDataBlock(EncryptAes256(AuthBufLen))

\* encrypt_aes256, the block's assembly, stream.write_all(&block)?, flush()?
\* (auth_buffer is a local of connect: it is gone once connect returns)
RsSendAuth ==
    /\ prog = "rs_query" /\ pc = "rs_send_auth"
    /\ \/ /\ writes' = Append(writes, Write("auth", SegLen(AuthFrame), AuthFrame))
          /\ pc' = "rs_set_timeout"
          /\ UNCHANGED << result, auth_buffer >>
       \/ /\ Return(Err("Io"))
          /\ auth_buffer' = << >>
          /\ UNCHANGED writes
    /\ UNCHANGED << Env, stream, opened, rx, rxFrom, lastRead, ctlRead, bulkRead,
                    private_key, peer_public_key, shared_secret, aes_key, derives,
                    timeout, response, data >>

\* a connect that returns the Connection without setting the read deadline
RsSetTimeout_NotSet ==
    /\ prog = "rs_query" /\ pc = "rs_set_timeout"
    /\ \/ /\ pc' = "rs_instruction"
          /\ UNCHANGED result
       \/ /\ Return(Err("Io"))
    /\ auth_buffer' = << >>
    /\ UNCHANGED << Env, stream, opened, rx, rxFrom, lastRead, ctlRead, bulkRead,
                    writes, private_key, peer_public_key, shared_secret, aes_key,
                    derives, timeout, response, data >>

\* stream.set_read_timeout(Some(Duration::from_secs(20)))?; Ok(Connection{..})
RsSetTimeout ==
    /\ prog = "rs_query" /\ pc = "rs_set_timeout"
    /\ \/ /\ timeout' = ReadTimeoutSecs
          /\ pc' = "rs_instruction"
          /\ UNCHANGED result
       \/ /\ Return(Err("Io"))
          /\ UNCHANGED timeout
    /\ auth_buffer' = << >>
    /\ UNCHANGED << Env, stream, opened, rx, rxFrom, lastRead, ctlRead, bulkRead,
                    writes, private_key, peer_public_key, shared_secret, aes_key,
                    derives, response, data >>

\* instruction_send_and_confirm(Instruction::Query(query), &mut connection)?:
\* writes the instruction (tag byte, length-prefixed text), reads one control line
InstructionLens == {9}
RsInstruction ==
    /\ prog = "rs_query" /\ pc = "rs_instruction"
    /\ \/ \E n \in InstructionLens, line \in ControlLines :
            /\ writes' = Append(writes, Write("instruction", n,
                             << [part |-> "instruction", len |-> n] >>))
            /\ response' = line
            /\ ctlRead' = ctlRead + 1
            /\ pc' = "rs_match"
            /\ UNCHANGED result
       \/ \E n \in InstructionLens :
            /\ writes' = Append(writes, Write("instruction", n,
                             << [part |-> "instruction", len |-> n] >>))
            /\ Return(Err("Io"))
            /\ UNCHANGED << response, ctlRead >>
       \/ /\ Return(Err("Io"))
          /\ UNCHANGED << writes, response, ctlRead >>
    /\ UNCHANGED << Env, stream, opened, rx, rxFrom, lastRead, bulkRead,
                    private_key, peer_public_key, shared_secret, aes_key, derives,
                    auth_buffer, timeout, data >>

\* the match with the wrong-password arm falling into the success branch
RsMatch_PasswordFallsThrough ==
    /\ prog = "rs_query" /\ pc = "rs_match"
    /\ LET c == Classify(response)
       IN  CASE c \in {"success", "WrongPassword"} -> pc' = "rs_receive" /\ UNCHANGED result
             [] c = "WrongUser" ->
                  Return(Ret("Err", "Authentication::WrongUser", "", username, << >>, 0))
             [] OTHER ->
                  /\ pc' = "panicked"
                  /\ result' = Ret("panic", "Need to handle error", response,
                                   NoCred, << >>, 0)
    /\ UNCHANGED << Env, stream, opened, rx, rxFrom, lastRead, ctlRead, bulkRead,
                    writes, private_key, peer_public_key, shared_secret, aes_key,
                    derives, auth_buffer, timeout, response, data >>

\* match response.as_str() { .. }
RsMatch ==
    /\ prog = "rs_query" /\ pc = "rs_match"
    /\ LET c == Classify(response)
       IN  CASE c = "success" -> pc' = "rs_receive" /\ UNCHANGED result
             [] c = "WrongUser" ->
                  Return(Ret("Err", "Authentication::WrongUser", "", username, << >>, 0))
             [] c = "WrongPassword" -> Return(Err("Authentication::WrongPassword"))
             [] OTHER ->
                  /\ pc' = "panicked"
                  /\ result' = Ret("panic", "Need to handle error", response,
                                   NoCred, << >>, 0)
    /\ UNCHANGED << Env, stream, opened, rx, rxFrom, lastRead, ctlRead, bulkRead,
                    writes, private_key, peer_public_key, shared_secret, aes_key,
                    derives, auth_buffer, timeout, response, data >>

\* receive_data(&mut connection)?: reads the length-prefixed payload
RsReceive ==
    /\ prog = "rs_query" /\ pc = "rs_receive"
    /\ \/ \E bs \in Payloads :
            /\ data' = bs
            /\ bulkRead' = bulkRead + 1
            /\ pc' = "rs_print"
            /\ UNCHANGED result
       \/ /\ Return(Err("Io"))
          /\ UNCHANGED << data, bulkRead >>
    /\ UNCHANGED << Env, stream, opened, rx, rxFrom, lastRead, ctlRead, writes,
                    private_key, peer_public_key, shared_secret, aes_key, derives,
                    auth_buffer, timeout, response >>

\* println!("received data:\n{}", bytes_to_str(&data)?)
RsPrint ==
    /\ prog = "rs_query" /\ pc = "rs_print"
    /\ \E o \in BytesToStrOutcomes(data) :
         IF o = "Ok"
         THEN pc' = "rs_ack" /\ UNCHANGED result
         ELSE Return(Err("Utf8"))
    /\ UNCHANGED << Env, stream, opened, rx, rxFrom, lastRead, ctlRead, bulkRead,
                    writes, private_key, peer_public_key, shared_secret, aes_key,
                    derives, auth_buffer, timeout, response, data >>

\* the byte counts stream.write("OK".as_bytes()) may report
AckWritten == {1, 2}

\* match connection.stream.write("OK".as_bytes()) { Ok(n) => .., Err(e) => return }
RsAck ==
    /\ prog = "rs_query" /\ pc = "rs_ack"
    /\ \/ \E n \in AckWritten :
            /\ writes' = Append(writes, Write("ack", n, << [part |-> "OK", len |-> n] >>))
            /\ pc' = "rs_decode"
            /\ UNCHANGED result
       \/ /\ Return(Err("Io"))
          /\ UNCHANGED writes
    /\ UNCHANGED << Env, stream, opened, rx, rxFrom, lastRead, ctlRead, bulkRead,
                    private_key, peer_public_key, shared_secret, aes_key, derives,
                    auth_buffer, timeout, response, data >>

\* String::from_utf8(data), else ColumnTable::from_binary("RESULT", &data)
RsDecode ==
    /\ prog = "rs_query" /\ pc = "rs_decode"
    /\ IF IsValidUtf8(data)
       THEN Return(Ret("Ok", "Response::Message", "", NoCred, data, 0))
       ELSE \/ Return(Ret("Ok", "Response::Table", "", NoCred, data, 0))
            \/ Return(Err("DecodeFailure"))
    /\ UNCHANGED << Env, stream, opened, rx, rxFrom, lastRead, ctlRead, bulkRead,
                    writes, private_key, peer_public_key, shared_secret, aes_key,
                    derives, auth_buffer, timeout, response, data >>

\* ============================================ src/client_libs/C/ezdb.c
\* the descriptor values read(2) is called on and what they are
Stdin == [fd |-> 0, state |-> "stdin"]

\* what read(fd, buf, 32) may return on a descriptor in state st
ReadReturns(st) ==
    IF st \in {"connected", "stdin"} THEN {-1, 0} \cup Fragments(KeyLen) ELSE {-1}

\* main: make_connection(address)
MakeConnection ==
    /\ prog = "c_main" /\ pc = "start"
    /\ \/ stream' = Stdin /\ UNCHANGED opened               \* socket() == -1: return 0
       \/ stream' = Stdin /\ opened' = TRUE                 \* connect() == -1: return 0
       \/ stream' = [fd |-> SockFd, state |-> "connected"] /\ opened' = TRUE
    /\ pc' = "dh_keygen"
    /\ UNCHANGED << Env, rx, rxFrom, lastRead, ctlRead, bulkRead, writes,
                    private_key, peer_public_key, shared_secret, aes_key, derives,
                    auth_buffer, timeout, response, data, result >>

\* handleErrors(): abort()
Abort ==
    /\ pc' = "aborted"
    /\ result' = Ret("abort", "handleErrors", "", NoCred, << >>, 0)

\* diffie_hellman: library init, key generation, the PEM print
DhKeygen ==
    /\ prog = "c_main" /\ pc = "dh_keygen"
    /\ \/ /\ \E k \in 1..MaxPriv : private_key' = k
          /\ pc' = "dh_read"
          /\ UNCHANGED result
       \/ /\ Abort
          /\ UNCHANGED private_key
    /\ UNCHANGED << Env, stream, opened, rx, rxFrom, lastRead, ctlRead, bulkRead,
                    writes, peer_public_key, shared_secret, aes_key, derives,
                    auth_buffer, timeout, response, data >>

\* whether diffie_hellman gives up after read returned r
ReadFailed(r) == r # 0

\* diffie_hellman: read(connected_stream, &server_public_key, 32) and its check
DhRead ==
    /\ prog = "c_main" /\ pc = "dh_read"
    /\ \E r \in ReadReturns(stream.state) :
         /\ lastRead' = r
         /\ rx' = IF r > 0 THEN r ELSE 0
         /\ rxFrom' = IF r > 0 THEN (IF stream.state = "connected" THEN "peer" ELSE "stdin")
                      ELSE rxFrom
         /\ pc' = IF ReadFailed(r) THEN "main_free" ELSE "dh_set_peer"
    /\ UNCHANGED << Env, stream, opened, ctlRead, bulkRead, writes, private_key,
                    peer_public_key, shared_secret, aes_key, derives, auth_buffer,
                    timeout, response, data, result >>

\* diffie_hellman: EVP_PKEY_set1_tls_encodedpoint on the uninitialized peerkey
\* (it may fail, succeed or fault), then peerkey = pkey
DhSetPeer ==
    /\ prog = "c_main" /\ pc = "dh_set_peer"
    /\ \/ /\ pc' = "main_free"
          /\ UNCHANGED << peer_public_key, result >>
       \/ /\ peer_public_key' = PublicKeyFrom(private_key)
          /\ pc' = "dh_derive"
          /\ UNCHANGED result
       \/ /\ pc' = "crashed"
          /\ result' = Ret("crash", "peerkey", "", NoCred, << >>, 0)
          /\ UNCHANGED peer_public_key
    /\ UNCHANGED << Env, stream, opened, rx, rxFrom, lastRead, ctlRead, bulkRead,
                    writes, private_key, shared_secret, aes_key, derives,
                    auth_buffer, timeout, response, data >>

\* diffie_hellman: the derive context, EVP_PKEY_derive, cleanup, return secret
DhDerive ==
    /\ prog = "c_main" /\ pc = "dh_derive"
    /\ \/ /\ shared_secret' = DiffieHellman(private_key, peer_public_key)
          /\ derives' = derives + 1
          /\ pc' = "main_free"
          /\ UNCHANGED result
       \/ /\ Abort
          /\ UNCHANGED << shared_secret, derives >>
    /\ UNCHANGED << Env, stream, opened, rx, rxFrom, lastRead, ctlRead, bulkRead,
                    writes, private_key, peer_public_key, aes_key, auth_buffer,
                    timeout, response, data >>

\* main: OPENSSL_free(secret); return 0
MainFree ==
    /\ prog = "c_main" /\ pc = "main_free"
    /\ Return(Rc(0))
    /\ UNCHANGED << Env, stream, opened, rx, rxFrom, lastRead, ctlRead, bulkRead,
                    writes, private_key, peer_public_key, shared_secret, aes_key,
                    derives, auth_buffer, timeout, response, data >>

\* ============================================== src/client_libs/ezdb.c
\* connect_to_db_server: the length check, return NULL
CcLenCheck ==
    /\ prog = "c_connect" /\ pc = "start"
    /\ IF TooLong(username, password)
       THEN Return(Ret("rc", "len_check", "", NoCred, << >>, 0))
       ELSE pc' = "cc_dh" /\ UNCHANGED result
    /\ UNCHANGED << Env, stream, opened, rx, rxFrom, lastRead, ctlRead, bulkRead,
                    writes, private_key, peer_public_key, shared_secret, aes_key,
                    derives, auth_buffer, timeout, response, data >>

\* connect_to_db_server: DH_new .. DH_get0_priv_key, each failure returns 1
CcDh ==
    /\ prog = "c_connect" /\ pc = "cc_dh"
    /\ \/ /\ \E k \in 1..MaxPriv : private_key' = k
          /\ pc' = "cc_socket"
          /\ UNCHANGED result
       \/ /\ Return(Rc(1))
          /\ UNCHANGED private_key
    /\ UNCHANGED << Env, stream, opened, rx, rxFrom, lastRead, ctlRead, bulkRead,
                    writes, peer_public_key, shared_secret, aes_key, derives,
                    auth_buffer, timeout, response, data >>

\* connect_to_db_server: socket(), connect(), neither result checked
CcSocket ==
    /\ prog = "c_connect" /\ pc = "cc_socket"
    /\ \/ stream' = [fd |-> -1, state |-> "none"] /\ UNCHANGED opened
       \/ stream' = [fd |-> SockFd, state |-> "unconnected"] /\ opened' = TRUE
       \/ stream' = [fd |-> SockFd, state |-> "connected"] /\ opened' = TRUE
    /\ pc' = "cc_read"
    /\ UNCHANGED << Env, rx, rxFrom, lastRead, ctlRead, bulkRead, writes,
                    private_key, peer_public_key, shared_secret, aes_key, derives,
                    auth_buffer, timeout, response, data, result >>

\* the values a function that ends without a return statement may yield
Indeterminate == {0, 1, 2}

\* connect_to_db_server: read(stream_id, key_buffer, 32), DH_free, no return
CcRead ==
    /\ prog = "c_connect" /\ pc = "cc_read"
    /\ \E r \in ReadReturns(stream.state) :
         /\ lastRead' = r
         /\ rx' = IF r > 0 THEN r ELSE 0
         /\ rxFrom' = IF r > 0 THEN "peer" ELSE rxFrom
    /\ \E c \in Indeterminate :
         Return(Ret("rc", "indeterminate", "", NoCred, << >>, c))
    /\ UNCHANGED << Env, stream, opened, ctlRead, bulkRead, writes, private_key,
                    peer_public_key, shared_secret, aes_key, derives, auth_buffer,
                    timeout, response, data >>

\* ================================================================== system
Next ==
    \/ RsLenCheck \/ RsKeygen \/ RsTcpConnect \/ RsReadExact \/ RsSendKey
    \/ RsDerive \/ RsAuthBuffer \/ RsSendAuth \/ RsSetTimeout \/ RsInstruction
    \/ RsMatch \/ RsReceive \/ RsPrint \/ RsAck \/ RsDecode
    \/ MakeConnection \/ DhKeygen \/ DhRead \/ DhSetPeer \/ DhDerive \/ MainFree
    \/ CcLenCheck \/ CcDh \/ CcSocket \/ CcRead

Spec == Init /\ [][Next]_vars

Done == pc \in {"done", "panicked", "aborted", "crashed"}

\* ================================================================== claims
WritesOf(what) == { i \in DOMAIN writes : writes[i].what = what }

Connected == stream.state = "connected"

\* C1: a handshake over a connected stream that yields a shared secret has read
\* exactly 32 bytes of the peer's public key first and then written its own
\* 32-byte public key; no byte is written before the 32 bytes were read.
C1_ReadThenSend ==
    (Connected /\ shared_secret # 0) =>
        /\ rx = KeyLen
        /\ \E i \in WritesOf("public_key") : writes[i].len = KeyLen
        /\ \A i \in DOMAIN writes : writes[i].after = KeyLen

\* C2: a shared secret or symmetric key exists only after all 32 bytes of the
\* peer's key were received from the peer, the secret is the Diffie-Hellman
\* value of the client's private key and that received key, the symmetric key
\* is its hash, and a session derives at most once.
C2_KeyOnlyFromCompletedExchange ==
    /\ derives <= 1
    /\ (Connected /\ (shared_secret # 0 \/ aes_key # 0)) =>
          /\ derives = 1
          /\ rx = KeyLen /\ rxFrom = "peer"
          /\ shared_secret = DiffieHellman(private_key, PublicKeyFrom(peerPriv))
    /\ aes_key # 0 => aes_key = Blake3Hash(shared_secret)

\* the handshake has ended in failure: the sketch returned an error, the C
\* diffie_hellman returned NULL to main
HandshakeFailed ==
    /\ shared_secret = 0 /\ aes_key = 0 /\ derives = 0 /\ peer_public_key = 0
    /\ prog = "rs_query" => pc = "done" /\ result.kind = "Err"
    /\ prog = "c_main" => pc \in {"main_free", "done"}
    /\ prog = "c_connect" => pc = "done"

\* C3: when the read of the peer's key returns zero bytes (the peer closed
\* before 32 bytes arrived) the handshake fails: no key material, no
\* derivation from the unfilled buffer.
C3_PeerClosedFails ==
    (Connected /\ lastRead = 0 /\ rx < KeyLen) => HandshakeFailed

\* the caller was refused at the length check
Rejected ==
    \/ prog = "rs_query" /\ result = Err("Authentication::TooLong")
    \/ prog = "c_connect" /\ result.kind = "rc" /\ result.tag = "len_check"

NoIO ==
    /\ ~opened /\ stream = NoStream
    /\ rx = 0 /\ lastRead = -2 /\ ctlRead = 0 /\ bulkRead = 0
    /\ writes = << >>

\* C4: a username or password longer than 512 is refused by the length check
\* before any network I/O (no socket, nothing read, nothing written), and
\* lengths of exactly 512 are not refused.
C4_TooLongBeforeIO ==
    (prog \in {"rs_query", "c_connect"} /\ pc # "start") =>
        IF username.len > 512 \/ password.len > 512
        THEN pc = "done" /\ Rejected /\ NoIO /\ private_key = 0
        ELSE ~Rejected

C4_Witness ==
    /\ pc = "done" /\ Rejected
    /\ username.len = 512 /\ password.len = 513

\* C5: the credential plaintext is 1024 bytes: the username at [0, len(u)),
\* the password at [512, 512 + len(p)), zero elsewhere; the regions do not
\* overlap and nothing is written outside the buffer.
C5_AuthBufferLayout ==
    /\ result.tag # "slice"
    /\ auth_buffer # << >> =>
          /\ DOMAIN auth_buffer = 0..1023
          /\ username.len <= 512 /\ 512 + password.len <= 1024
          /\ \A i \in 0..1023 :
                auth_buffer[i] =
                    IF i < username.len THEN CredByte(username, i)
                    ELSE IF 512 <= i /\ i < 512 + password.len
                         THEN CredByte(password, i - 512)
                    ELSE 0

C5_Witness ==
    /\ auth_buffer # << >>
    /\ username.len = 1 /\ password.len = 512 /\ password.seed = 2

AuthWrites == WritesOf("auth")
AckWrites == WritesOf("ack")

\* the frame as the three parts in the order given
Frame(a, b, c) ==
    << [part |-> a[1], len |-> a[2]], [part |-> b[1], len |-> b[2]],
       [part |-> c[1], len |-> c[2]] >>

\* what every authentication frame satisfies whatever its layout: 1052 bytes,
\* written right after the public key with nothing before it, under the key
\* derived from the completed exchange
AuthFrameSizedAndKeyed(i) ==
    /\ writes[i].len = 12 + 1024 + 16
    /\ SegLen(writes[i].layout) = writes[i].len
    /\ i = 2 /\ writes[1].what = "public_key"
    /\ writes[i].key # 0
    /\ writes[i].key = Blake3Hash(DiffieHellman(private_key, PublicKeyFrom(peerPriv)))

\* C6 as stated: the authentication frame is 1052 bytes, the 12-byte nonce
\* first, then the 1024-byte ciphertext, then the 16-byte tag, with no length
\* header, written after the key was derived.
C6_FrameNonceFirst ==
    \A i \in AuthWrites :
        /\ AuthFrameSizedAndKeyed(i)
        /\ writes[i].layout =
              Frame(<<"nonce", 12>>, <<"ciphertext", 1024>>, <<"tag", 16>>)

\* C6 amended: the authentication frame is 1052 bytes, the encrypted data
\* first (the 1024-byte ciphertext, then the 16-byte tag) and the 12-byte
\* nonce last, with no length header, written after the key was derived.
C6_FrameNonceLast ==
    \A i \in AuthWrites :
        /\ AuthFrameSizedAndKeyed(i)
        /\ writes[i].layout =
              Frame(<<"ciphertext", 1024>>, <<"tag", 16>>, <<"nonce", 12>>)

C6_Witness == AuthWrites # {} /\ pc = "rs_set_timeout"

\* C7: the classification of the control line is total and four-way: "OK" is
\* success, "Username is incorrect" is WrongUser(username), "Password is
\* incorrect" is WrongPassword, any other text is returned as the error
\* UnrecognizedResponse(text); no control line crashes the client.
C7_ClassifierTotal ==
    (prog = "rs_query" /\ response # NoResponse /\ pc # "rs_match") =>
        /\ pc # "panicked"
        /\ CASE response = "OK" ->
                  ~(result.kind = "Err" /\ result.tag \in
                        {"Authentication::WrongUser", "Authentication::WrongPassword",
                         "Protocol::UnrecognizedResponse"})
             [] response = "Username is incorrect" ->
                  /\ pc = "done" /\ result.kind = "Err"
                  /\ result.tag = "Authentication::WrongUser"
                  /\ result.user = username
             [] response = "Password is incorrect" ->
                  pc = "done" /\ result = Err("Authentication::WrongPassword")
             [] OTHER ->
                  /\ pc = "done" /\ result.kind = "Err"
                  /\ result.tag = "Protocol::UnrecognizedResponse"
                  /\ result.text = response

\* C8: when the control line is anything but exactly "OK", no bulk payload is
\* read and no "OK" acknowledgment is written.
C8_BulkOnlyAfterOK ==
    (response # "OK") => (bulkRead = 0 /\ AckWrites = {} /\ data = << >>)

C8_Witness ==
    /\ Done /\ response = "OK " /\ ctlRead = 1
    /\ bulkRead = 0 /\ AckWrites = {}

\* the run ended on a transport failure
IoFailed == result.kind = "Err" /\ result.tag = "Io"

\* C9: once the whole payload is received, query_table writes the literal "OK"
\* before it returns, whatever the payload decodes to.
C9_AckAfterPayload ==
    (prog = "rs_query" /\ bulkRead > 0 /\ Done /\ ~IoFailed) =>
        \E i \in AckWrites : writes[i].len = 2

WriteLog == [i \in DOMAIN writes |-> << writes[i].what, writes[i].len >>]

\* C10: against a server that sends its 32-byte key, reads the client's key and
\* the 1052-byte frame, replies "OK" and sends a payload, the client's writes
\* are exactly the 32-byte public key, the 1052-byte frame and one 2-byte
\* "OK"; one acknowledgment and one Response per round trip.
C10_EndToEnd ==
    (prog = "rs_query" /\ rx = KeyLen /\ response = "OK" /\ bulkRead = 1
        /\ Done /\ ~IoFailed) =>
        /\ WriteLog = << <<"public_key", 32>>, <<"auth", 1052>>, <<"ack", 2>> >>
        /\ Cardinality(AckWrites) = 1
        /\ result.kind = "Ok"

\* ------------------------------------------------------------------- C11
AuthVerdicts == {"Authentication::WrongUser", "Authentication::WrongPassword"}

\* The state of the session, read off the program's position: Authenticated
\* once the control line was matched into the success branch, Failed once an
\* error ended the run before that, Unauthenticated otherwise.
SessionTag ==
    IF /\ prog = "rs_query" /\ ctlRead = 1
       /\ pc \notin {"rs_match", "panicked"}
       /\ result.tag \notin AuthVerdicts
    THEN "Authenticated"
    ELSE IF \/ result.kind \in {"Err", "panic", "abort", "crash"}
            \/ prog = "c_main" /\ pc \in {"main_free", "done"} /\ shared_secret = 0
            \/ prog = "c_connect" /\ pc = "done" /\ result.tag # "indeterminate"
    THEN "Failed"
    ELSE "Unauthenticated"

\* what holds of a session in each state of the tag
SessionTagSound ==
    /\ SessionTag = "Authenticated" =>
          /\ response = "OK"
          /\ aes_key # 0 /\ AuthWrites # {}
          /\ timeout = ReadTimeoutSecs
    /\ (result.kind = "Err" /\ result.tag \in AuthVerdicts) =>
          SessionTag = "Failed" /\ pc = "done"
    /\ (result.kind = "Err" /\ response # "OK") => SessionTag = "Failed"

\* the steps of the tag: Unauthenticated to Authenticated or to Failed, and
\* nothing leaves Authenticated or Failed
SessionTagStep ==
    \/ SessionTag' = SessionTag
    \/ SessionTag = "Unauthenticated" /\ SessionTag' \in {"Authenticated", "Failed"}

ReturnedError ==
    /\ pc = "done"
    /\ \/ result.kind = "Err"
       \/ result.kind = "rc" /\ result.tag # "indeterminate" /\ prog = "c_connect"
       \/ prog = "c_main" /\ shared_secret = 0

\* C12: a failure of key generation, of the read of the peer's key or of a
\* write ends session construction with an error value returned to the
\* caller: the process is not aborted, and after a failed or short read of
\* the key nothing more is read or written.
C12_FailuresReturned ==
    /\ Connected => pc # "aborted"
    /\ (Connected /\ lastRead # -2 /\ lastRead <= 0) =>
          (pc \in {"main_free", "done"} /\ (pc = "done" => ReturnedError)
             /\ writes = << >> /\ ctlRead = 0 /\ bulkRead = 0 /\ derives = 0)
    /\ (result.kind = "Err") => pc = "done"

\* ------------------------------------------------------------------- C13
\* the handshake has gone on past the read of the peer's key
PastKeyRead ==
    \/ prog = "c_main" /\ pc \in {"dh_set_peer", "dh_derive"}
    \/ prog = "rs_query" /\ pc \in {"rs_send_key", "rs_derive"}
    \/ peer_public_key # 0
    \/ derives > 0

\* C13: over a connected stream that delivers the key in fragments, the
\* handshake goes on past the read only with exactly 32 bytes accumulated
\* from the peer, and no derivation uses a partially filled key buffer.
C13_ExactKeyRead ==
    (Connected /\ PastKeyRead) => (rx = KeyLen /\ rxFrom = "peer")

\* ------------------------------------------------------------------- C14
\* the key the peer derives from its own private key and the client's public key
PeerSecret == DiffieHellman(peerPriv, PublicKeyFrom(private_key))

\* C14: a client that has derived its key over a connected stream holds the
\* same symmetric key as its peer: hash(DH(client_private, server_public)) =
\* hash(DH(server_private, client_public)), for every pair of key pairs.
C14_KeysAgree ==
    (Connected /\ derives > 0) =>
        /\ shared_secret = PeerSecret
        /\ aes_key = Blake3Hash(PeerSecret)

\* ============================================ concurrent handshake sessions
\* Several sessions of one process, each on its own connection, call the same
\* handshake function.  The crypto library's algorithm and error-string
\* tables are process-global: every call loads them on entry and frees them
\* before returning.
NumSessions == 2
SessionIds == 1..NumSessions

Entries == {"diffie_hellman", "make_dh_private_key"}

Session(p, o) == [pc |-> p, out |-> o]

InitConc ==
    /\ prog = "sessions"
    /\ username = Admin
    /\ password = Admin
    /\ peerPriv = 1
    /\ Fresh
    /\ entry \in Entries
    /\ sessions = [s \in SessionIds |-> Session("idle", "none")]
    /\ registry = "unloaded"
    /\ process = "running"
    /\ NoTree

At(s, p) == process = "running" /\ sessions[s].pc = p

Goto(s, p) == sessions' = [sessions EXCEPT ![s].pc = p]

Returns(s, o) == sessions' = [sessions EXCEPT ![s] = Session("done", o)]

\* OpenSSL_add_all_algorithms(); ERR_load_crypto_strings();
LibInit(s) ==
    /\ At(s, "idle")
    /\ registry' = "loaded"
    /\ Goto(s, "keygen")
    /\ UNCHANGED << seqVars, treeVars, entry, process >>

\* handleErrors() in one session: abort() ends the process
AbortProcess ==
    /\ process' = "aborted"
    /\ UNCHANGED << sessions, registry >>

\* diffie_hellman: key generation and the PEM print
ThKeygen(s) ==
    /\ entry = "diffie_hellman" /\ At(s, "keygen")
    /\ \/ Goto(s, "read") /\ UNCHANGED << registry, process >>
       \/ AbortProcess
    /\ UNCHANGED << seqVars, treeVars, entry >>

\* diffie_hellman: the read of the peer's key; an early return frees nothing
ThRead(s) ==
    /\ entry = "diffie_hellman" /\ At(s, "read")
    /\ \E r \in {-1, 0, 1, KeyLen} :
          IF ReadFailed(r) THEN Returns(s, "NULL") ELSE Goto(s, "set_peer")
    /\ UNCHANGED << seqVars, treeVars, entry, registry, process >>

\* diffie_hellman: EVP_PKEY_set1_tls_encodedpoint on the uninitialized peerkey
ThSetPeer(s) ==
    /\ entry = "diffie_hellman" /\ At(s, "set_peer")
    /\ \/ Returns(s, "NULL") /\ UNCHANGED process
       \/ Goto(s, "derive") /\ UNCHANGED process
       \/ process' = "crashed" /\ UNCHANGED sessions
    /\ UNCHANGED << seqVars, treeVars, entry, registry >>

\* diffie_hellman: the derivation and the print of the secret
ThDerive(s) ==
    /\ entry = "diffie_hellman" /\ At(s, "derive")
    /\ \/ Goto(s, "cleanup") /\ UNCHANGED << registry, process >>
       \/ AbortProcess
    /\ UNCHANGED << seqVars, treeVars, entry >>

\* make_dh_private_key: context, keygen init, key length, key generation;
\* each failure prints the library's error strings and returns 1
MkKeygen(s) ==
    /\ entry = "make_dh_private_key" /\ At(s, "keygen")
    /\ \/ Goto(s, "cleanup")
       \/ Returns(s, "1")
    /\ UNCHANGED << seqVars, treeVars, entry, registry, process >>

\* EVP_cleanup(); ERR_free_strings(); and the return
LibCleanup(s) ==
    /\ At(s, "cleanup")
    /\ registry' = "freed"
    /\ Returns(s, IF entry = "diffie_hellman" THEN "secret" ELSE "0")
    /\ UNCHANGED << seqVars, treeVars, entry, process >>

\* positions at which a session uses the library's global tables
UsesLibrary == {"keygen", "set_peer", "derive"}

\* a library call on tables another session has freed: besides the call's
\* ordinary outcomes, the use of freed memory can fault
LibFault(s) ==
    /\ process = "running"
    /\ sessions[s].pc \in UsesLibrary
    /\ registry = "freed"
    /\ sessions' = [sessions EXCEPT ![s].out = "lib_fault"]
    /\ process' = "crashed"
    /\ UNCHANGED << seqVars, treeVars, entry, registry >>

NextConc ==
    \E s \in SessionIds :
        \/ LibInit(s) \/ ThKeygen(s) \/ ThRead(s) \/ ThSetPeer(s)
        \/ ThDerive(s) \/ MkKeygen(s) \/ LibCleanup(s) \/ LibFault(s)

SpecConc == InitConc /\ [][NextConc]_vars

\* ------------------------------------------------------------------- C15
\* C15: concurrent sessions share no mutable state: while a session is using
\* the crypto library, the library state it loaded is still loaded (no other
\* session's initialisation or cleanup has changed it), and no session ends
\* with an outcome it cannot have when run alone.
C15_SessionsIndependent ==
    \A s \in DOMAIN sessions :
        /\ (sessions[s].pc \in UsesLibrary) => registry = "loaded"
        /\ sessions[s].out # "lib_fault"

\* ------------------------------------------------------------------- C16
\* the run ended on an authentication failure
AuthFailureRun ==
    result.tag \in AuthVerdicts \cup {"Authentication::TooLong", "len_check"}

\* the result as the caller sees it: a C integer, or an EzError variant
CallerValue ==
    IF result.kind = "rc" THEN << "rc", result.code >>
    ELSE << result.kind, result.tag >>

\* the values by which a program reports an authentication failure
AuthValues ==
    IF prog = "c_connect" THEN {<< "rc", 0 >>}
    ELSE {<< "Err", t >> : t \in AuthVerdicts \cup {"Authentication::TooLong"}}

\* C16: a result value that reports an authentication failure is returned
\* only by a run that ended on an authentication failure, never by a run
\* that ended on a transport or key-generation failure, on an unrecognized
\* response, or on success.
C16_ResultClassesDistinct ==
    (prog \in {"c_connect", "rs_query"} /\ pc = "done"
        /\ CallerValue \in AuthValues) => AuthFailureRun

\* ------------------------------------------------------------------- C17
\* a control line or a bulk payload has been read
ResponseRead == ctlRead > 0 \/ bulkRead > 0

\* C17 (as stated): the 20-second read deadline is set only after
\* authentication has succeeded and before the first query response is read.
C17_DeadlineAfterAuthSucceeds ==
    /\ ResponseRead => timeout = ReadTimeoutSecs
    /\ timeout # 0 => SessionTag = "Authenticated"

\* C17 (amended): the 20-second read deadline is set once the authentication
\* frame has been written, before any response (the authentication verdict
\* included) is read: no response is read with the deadline unset, and the
\* deadline is never set on a session that has not sent its authentication.
C17_DeadlineAfterAuthSent ==
    /\ ResponseRead => timeout = ReadTimeoutSecs
    /\ timeout # 0 => (timeout = ReadTimeoutSecs /\ AuthWrites # {} /\ aes_key # 0)
    /\ (timeout # 0 /\ pc = "rs_instruction") => ~ResponseRead

\* the deadline is in force on a session whose authentication is then refused
C17_Witness ==
    /\ timeout = ReadTimeoutSecs
    /\ ctlRead = 1
    /\ response = "Username is incorrect"

\* ------------------------------------------------------------------- C18
DecodeOutcomes == {"Response::Message", "Response::Table", "DecodeFailure"}

\* C18: a query that received its bulk payload and did not fail on the
\* transport returns exactly one of Message, Table or DecodeFailure, and it
\* returns Message exactly when the payload is valid UTF-8.
C18_DecodeOutcome ==
    (prog = "rs_query" /\ bulkRead > 0 /\ pc = "done" /\ result.tag # "Io") =>
        /\ result.tag \in DecodeOutcomes
        /\ result.tag = "Response::Message" <=> IsValidUtf8(data)
        /\ result.kind = "Ok" => result.bytes = data

\* ------------------------------------------------------------------- C19
\* diffie_hellman has returned to main
DhReturned == prog = "c_main" /\ pc \in {"main_free", "done"}

\* C19: when the read delivered all 32 bytes of the peer's key over a connected
\* stream, diffie_hellman does not return a null secret: the full read is not
\* itself treated as a failure.
C19_FullReadYieldsSecret ==
    (DhReturned /\ Connected /\ lastRead = KeyLen /\ rxFrom = "peer") =>
        shared_secret # 0

\* ------------------------------------------------------------------- C20
\* a read or a write for the handshake has been performed
HandshakeIO == lastRead # -2 \/ writes # << >>

\* C20: handshake I/O happens only on a stream that was connected, and
\* make_connection reports a failed socket() or connect() by a value that is
\* not a valid descriptor.
C20_NoIOOnUnconnected ==
    /\ HandshakeIO => Connected
    /\ (prog = "c_main" /\ pc # "start" /\ ~Connected) => stream.fd < 0

\* =========================================== src/client_libs/C/BPlusTree.cpp
\* Nodes live in a heap indexed by address (allocation order); 0 is nullptr.
\* Values and keys are strings in the source; here they are numbers, ordered
\* as the strings are.
Null == 0

\* Node::Node(order)
NewNode(o) ==
    [order |-> o, values |-> << >>, children |-> << >>, keys |-> << >>,
     nextKey |-> Null, parent |-> Null, check_leaf |-> FALSE]

\* vector::insert(begin() + i, x), i counted from 0
InsertAt(seq, i, x) ==
    SubSeq(seq, 1, i) \o << x >> \o SubSeq(seq, i + 1, Len(seq))

\* vector::assign(begin() + from, end()), from counted from 0
AssignFrom(seq, from) == SubSeq(seq, from + 1, Len(seq))

\* vector::resize(n) to a smaller size
Resize(seq, n) == SubSeq(seq, 1, n)

\* int mid = ceil(order / 2.0) - 1
Mid(o) == ((o + 1) \div 2) - 1

\* Node::insert_at_leaf, the loop from index i (counted from 1)
RECURSIVE LeafLoop(_, _, _, _)
LeafLoop(node, i, value, key) ==
    IF i > Len(node.values) THEN node
    ELSE IF value = node.values[i]
         THEN [node EXCEPT !.keys[i] = Append(@, key)]
    ELSE IF value < node.values[i]
         THEN [node EXCEPT !.values = InsertAt(@, i - 1, value),
                           !.keys = InsertAt(@, i - 1, << key >>)]
    ELSE IF i = Len(node.values)
         THEN [node EXCEPT !.values = Append(@, value),
                           !.keys = Append(@, << key >>)]
    ELSE LeafLoop(node, i + 1, value, key)

\* Node::insert_at_leaf
InsertAtLeaf(node, value, key) ==
    IF node.values # << >>
    THEN LeafLoop(node, 1, value, key)
    ELSE [node EXCEPT !.values = << value >>, !.keys = << << key >> >>]

\* BplusTree::search, the for loop over the separators of an internal node:
\* the index (counted from 1) of the child to descend into
RECURSIVE ChildFor(_, _, _)
ChildFor(node, i, value) ==
    IF value = node.values[i] THEN i + 1
    ELSE IF value < node.values[i] THEN i
    ELSE IF i = Len(node.values) THEN i + 1
    ELSE ChildFor(node, i + 1, value)

\* BplusTree::search from node n
RECURSIVE SearchFrom(_, _, _)
SearchFrom(h, n, value) ==
    IF h[n].check_leaf THEN n
    ELSE SearchFrom(h, h[n].children[ChildFor(h[n], 1, value)], value)

Search(h, r, value) == SearchFrom(h, r, value)

\* BplusTree::find
Find(h, r, value, key) ==
    LET l == h[Search(h, r, value)]
    IN  \E i \in 1..Len(l.values) :
            /\ l.values[i] = value
            /\ \E j \in 1..Len(l.keys[i]) : l.keys[i][j] = key

\* what an operation leaves behind: the heap, the root and whether it faulted
Tree(h, r, f) == [heap |-> h, root |-> r, fault |-> f]

\* the index (counted from 0) of the first child of node p that is n, or -1
ChildIndex(node, n) ==
    LET at == { i \in 1..Len(node.children) : node.children[i] = n }
    IN  IF at = {} THEN -1
        ELSE (CHOOSE i \in at : \A j \in at : i <= j) - 1

\* BplusTree::insert_in_parent
RECURSIVE InsertInParent(_, _, _, _, _)
InsertInParent(h, r, n, value, ndash) ==
    IF r = n
    THEN LET rootNode == Len(h) + 1
             node == [NewNode(h[n].order) EXCEPT !.values = << value >>,
                                                 !.children = << n, ndash >>]
         IN  Tree(Append([h EXCEPT ![n].parent = rootNode,
                                   ![ndash].parent = rootNode], node),
                  rootNode, FALSE)
    ELSE LET parentNode == h[n].parent
         IN  IF parentNode = Null THEN Tree(h, r, TRUE)
             ELSE LET i == ChildIndex(h[parentNode], n)
                  IN  IF i = -1 THEN Tree(h, r, FALSE)
                      ELSE LET vals == InsertAt(h[parentNode].values, i, value)
                               kids == InsertAt(h[parentNode].children, i + 1, ndash)
                               o == h[parentNode].order
                           IN  IF Len(kids) > o
                               THEN LET parentdash == Len(h) + 1
                                        mid == Mid(o)
                                        node == [NewNode(o) EXCEPT
                                                   !.parent = h[parentNode].parent,
                                                   !.values = AssignFrom(vals, mid + 1),
                                                   !.children = AssignFrom(kids, mid + 1)]
                                        value_ == vals[mid + 1]
                                        h2 == Append([h EXCEPT
                                                   ![parentNode].values = Resize(vals, mid),
                                                   ![parentNode].children = Resize(kids, mid + 1)],
                                                 node)
                                    IN  InsertInParent(h2, r, parentNode, value_, parentdash)
                               ELSE Tree([h EXCEPT ![parentNode].values = vals,
                                                   ![parentNode].children = kids],
                                         r, FALSE)

\* BplusTree::insert
Insert(h, r, value, key) ==
    LET old_node == Search(h, r, value)
        leaf == InsertAtLeaf(h[old_node], value, key)
        o == leaf.order
    IN  IF Len(leaf.values) = o
        THEN LET node1 == Len(h) + 1
                 mid == Mid(o)
                 node == [NewNode(o) EXCEPT
                            !.check_leaf = TRUE,
                            !.parent = leaf.parent,
                            !.values = AssignFrom(leaf.values, mid + 1),
                            !.keys = AssignFrom(leaf.keys, mid + 1),
                            !.nextKey = leaf.nextKey]
                 h2 == Append([h EXCEPT ![old_node] =
                                  [leaf EXCEPT !.values = Resize(@, mid + 1),
                                               !.keys = Resize(@, mid + 1),
                                               !.nextKey = node1]],
                              node)
             IN  InsertInParent(h2, r, old_node, node.values[1], node1)
        ELSE Tree([h EXCEPT ![old_node] = leaf], r, FALSE)

\* bounds of the tree program
MinOrder == 3
MaxOrder == 4
MaxValue == 7
MaxKey == 2
MaxInserts == 7

TreeValues == 1..MaxValue
TreeKeys == 1..MaxKey

\* BplusTree bplustree(record_len)
InitTree ==
    /\ prog = "bplustree"
    /\ username = Admin
    /\ password = Admin
    /\ peerPriv = 1
    /\ Fresh
    /\ NoSessions
    /\ order \in MinOrder..MaxOrder
    /\ heap = << [NewNode(order) EXCEPT !.check_leaf = TRUE] >>
    /\ root = 1
    /\ inserted = {}
    /\ calls = 0
    /\ fault = FALSE

\* bplustree.insert(value, key)
TreeInsert ==
    /\ ~fault
    /\ calls < MaxInserts
    /\ \E value \in TreeValues, key \in TreeKeys :
          LET t == Insert(heap, root, value, key)
          IN  /\ heap' = t.heap
              /\ root' = t.root
              /\ fault' = t.fault
              /\ inserted' = inserted \cup {<< value, key >>}
              /\ calls' = calls + 1
    /\ UNCHANGED << seqVars, concVars, order >>

NextTree == TreeInsert

SpecTree == InitTree /\ [][NextTree]_vars

\* ------------------------------------------------------------------- C21
\* the nodes reachable from node n through children lists
RECURSIVE Below(_, _)
Below(h, n) ==
    {n} \cup UNION { Below(h, h[n].children[i]) : i \in 1..Len(h[n].children) }

\* the leaves the program has allocated
Leaves == { n \in 1..Len(heap) : heap[n].check_leaf }

\* C21: after any sequence of inserts into a tree of order 3 or more, find
\* returns true exactly for the (value, key) pairs that were inserted, and
\* every leaf a split created is reachable from the root.
C21_FindAgreesWithInserts ==
    prog = "bplustree" =>
        /\ \A v \in TreeValues, k \in TreeKeys :
              Find(heap, root, v, k) <=> << v, k >> \in inserted
        /\ Leaves \subseteq Below(heap, root)

\* ------------------------------------------------------------------- C22
LeafOk(node) ==
    /\ Len(node.values) < node.order
    /\ \A i \in 1..(Len(node.values) - 1) : node.values[i] < node.values[i + 1]
    /\ Len(node.keys) = Len(node.values)

InternalOk(node) ==
    /\ Len(node.values) >= 1
    /\ Len(node.children) = Len(node.values) + 1
    /\ Len(node.children) <= node.order

ParentsOk(h, n) ==
    \A i \in 1..Len(h[n].children) : h[h[n].children[i]].parent = n

\* C22: after every insert into a tree of order 3 or more, every leaf holds
\* fewer than order values, strictly ascending, with as many key lists as
\* values; every internal node holds at least one separator, one child more
\* than separators and at most order children; and every child's parent
\* pointer is the node whose children list contains it.
C22_NodesWellFormed ==
    prog = "bplustree" =>
        \A n \in 1..Len(heap) :
            /\ IF heap[n].check_leaf THEN LeafOk(heap[n]) ELSE InternalOk(heap[n])
            /\ ParentsOk(heap, n)

=============================================================================
